---- MODULE Spec2Model ----
(***************************************************************************)
(* Model of src/QuadTree.js (flamurey/quadtree-js 1.1.1): a point quadtree *)
(* with rectangle retrieval.                                               *)
(*                                                                         *)
(* Numbers.  The code computes with IEEE doubles.  All coordinates of the  *)
(* model are dyadic rationals with at most FracBits fractional bits; they  *)
(* are held as integers counted in units of 1/Unit, so that the halving    *)
(* "width / 2" of split and getIndexForPoint is exact down to the deepest  *)
(* level the tree can reach (ExactHalves checks it).                       *)
(*                                                                         *)
(* A node is the record                                                    *)
(*   [max_objects, max_levels, level, bounds, objects, nodes]              *)
(* where nodes is <<>> for a leaf and a 4-tuple of nodes after split();    *)
(* JavaScript's nodes[i] is nodes[i + 1] here.                             *)
(***************************************************************************)
EXTENDS Integers, Sequences, FiniteSets, TLC

VARIABLES
    tree,           \* the root Quadtree object
    argBounds,      \* constructor argument bounds (as handed in)
    argMaxObjects,  \* constructor argument max_objects
    argMaxLevels,   \* constructor argument max_levels
    argLevel,       \* constructor argument level
    inserted,       \* points passed to insert since construction or the last clear()
    lastCall,       \* the call made last: "new", "insert", "clear" or "retrieve"
    stack           \* the frames of the calls under way, the running one last

vars == <<tree, argBounds, argMaxObjects, argMaxLevels, argLevel, inserted, lastCall, stack>>

----------------------------------------------------------------------------
(* Bounds of the model and program constants *)

\* number of insert calls between two clears
MaxInserts == 3

\* number of insert calls between two clears where calls run step by step
MaxStepInserts == 2

\* number of frames the call stack can hold
MaxStack == 6

\* default of max_objects
DefaultMaxObjects == 10

\* default of max_levels
DefaultMaxLevels == 4

\* default of level
DefaultLevel == 0

\* fractional bits carried by a coordinate: one per level a tree can have
FracBits == DefaultMaxLevels

Unit == 2 ^ FracBits

Num(n) == n * Unit

----------------------------------------------------------------------------
(* JavaScript values *)

\* an optional integer argument: either not supplied, or an integer
Undefined == [given |-> FALSE, val |-> 0]

Arg(n) == [given |-> TRUE, val |-> n]

\* a || d  for an optional integer a: undefined and 0 are falsy
OrDefault(a, d) == IF a.given /\ a.val # 0 THEN a.val ELSE d

\* seq.splice(i, 1) on a 1-based sequence: seq without its i-th element
RemoveAt(seq, i) == SubSeq(seq, 1, i - 1) \o SubSeq(seq, i + 1, Len(seq))

----------------------------------------------------------------------------
(* The Quadtree object *)

\* function Quadtree(bounds, max_objects, max_levels, level)
Quadtree(bounds, max_objects, max_levels, level) ==
    [ max_objects |-> OrDefault(max_objects, DefaultMaxObjects),
      max_levels  |-> OrDefault(max_levels, DefaultMaxLevels),
      level       |-> OrDefault(level, DefaultLevel),
      bounds      |-> [ left   |-> bounds.left,
                        right  |-> bounds.right,
                        bottom |-> bounds.bottom,
                        top    |-> bounds.top,
                        width  |-> bounds.right - bounds.left,
                        height |-> bounds.top - bounds.bottom ],
      objects     |-> << >>,
      nodes       |-> << >> ]

\* Quadtree.prototype.ALL_NODES
ALL_NODES == <<0, 1, 2, 3>>

\* x / 2 on the coordinates of the model
Half(x) == x \div 2

\* typeof this.nodes[0] !== 'undefined'
HasSubNodes(this) == Len(this.nodes) > 0

\* split with the horizontal midpoint taken as width / 2, without bounds.left
split_midpointFromZero(this) ==
    LET nextLevel   == this.level + 1
        horMidpoint == Half(this.bounds.width)
        verMidpoint == this.bounds.bottom + Half(this.bounds.height)
        Sub(b) == Quadtree(b, Arg(this.max_objects), Arg(this.max_levels), Arg(nextLevel))
    IN  [ this EXCEPT !.nodes =
            << Sub([ left |-> horMidpoint, bottom |-> this.bounds.bottom,
                     right |-> this.bounds.right, top |-> verMidpoint ]),
               Sub([ left |-> this.bounds.left, bottom |-> this.bounds.bottom,
                     right |-> horMidpoint, top |-> verMidpoint ]),
               Sub([ left |-> this.bounds.left, bottom |-> verMidpoint,
                     right |-> horMidpoint, top |-> this.bounds.top ]),
               Sub([ left |-> horMidpoint, bottom |-> verMidpoint,
                     right |-> this.bounds.right, top |-> this.bounds.top ]) >> ]

\* Quadtree.prototype.split
split(this) ==
    LET nextLevel   == this.level + 1
        horMidpoint == this.bounds.left + Half(this.bounds.width)
        verMidpoint == this.bounds.bottom + Half(this.bounds.height)
        Sub(b) == Quadtree(b, Arg(this.max_objects), Arg(this.max_levels), Arg(nextLevel))
    IN  [ this EXCEPT !.nodes =
            << \* bottom right node
               Sub([ left   |-> horMidpoint,
                     bottom |-> this.bounds.bottom,
                     right  |-> this.bounds.right,
                     top    |-> verMidpoint ]),
               \* bottom left node
               Sub([ left   |-> this.bounds.left,
                     bottom |-> this.bounds.bottom,
                     right  |-> horMidpoint,
                     top    |-> verMidpoint ]),
               \* top left node
               Sub([ left   |-> this.bounds.left,
                     bottom |-> verMidpoint,
                     right  |-> horMidpoint,
                     top    |-> this.bounds.top ]),
               \* top right node
               Sub([ left   |-> horMidpoint,
                     bottom |-> verMidpoint,
                     right  |-> this.bounds.right,
                     top    |-> this.bounds.top ]) >> ]

\* hasIntersection with <= for <: rectangles that only touch do not intersect
hasIntersection_strict(this, pRect) ==
    ~ (   pRect.right <= this.bounds.left
       \/ this.bounds.right <= pRect.left
       \/ pRect.top <= this.bounds.bottom
       \/ this.bounds.top <= pRect.bottom )

\* Quadtree.prototype.hasIntersection
hasIntersection(this, pRect) ==
    ~ (   pRect.right < this.bounds.left
       \/ this.bounds.right < pRect.left
       \/ pRect.top < this.bounds.bottom
       \/ this.bounds.top < pRect.bottom )

\* getIndexForRect whose fast path tests the horizontal containment alone
getIndexForRect_horizontalOnly(this, pRect) ==
    IF /\ this.bounds.left >= pRect.left
       /\ this.bounds.right <= pRect.right
    THEN ALL_NODES
    ELSE SelectSeq(ALL_NODES, LAMBDA i : hasIntersection(this.nodes[i + 1], pRect))

\* Quadtree.prototype.getIndexForRect
getIndexForRect(this, pRect) ==
    IF /\ this.bounds.left >= pRect.left
       /\ this.bounds.right <= pRect.right
       /\ this.bounds.bottom >= pRect.bottom
       /\ this.bounds.top <= pRect.top
    THEN ALL_NODES
    ELSE SelectSeq(ALL_NODES, LAMBDA i : hasIntersection(this.nodes[i + 1], pRect))

\* getIndexForPoint with >= for >: a point on a midline goes right or up
getIndexForPoint_midlineUp(this, point) ==
    LET horizontalMidpoint == this.bounds.left + Half(this.bounds.width)
        verticalMidpoint   == this.bounds.bottom + Half(this.bounds.height)
    IN  IF point.lon >= horizontalMidpoint
        THEN IF point.lat >= verticalMidpoint THEN 3 ELSE 0
        ELSE IF point.lat >= verticalMidpoint THEN 2 ELSE 1

\* getIndexForPoint with the two bottom indexes exchanged
getIndexForPoint_bottomSwapped(this, point) ==
    LET horizontalMidpoint == this.bounds.left + Half(this.bounds.width)
        verticalMidpoint   == this.bounds.bottom + Half(this.bounds.height)
    IN  IF point.lon > horizontalMidpoint
        THEN IF point.lat > verticalMidpoint THEN 3 ELSE 1
        ELSE IF point.lat > verticalMidpoint THEN 2 ELSE 0

\* Quadtree.prototype.getIndexForPoint
getIndexForPoint(this, point) ==
    LET horizontalMidpoint == this.bounds.left + Half(this.bounds.width)
        verticalMidpoint   == this.bounds.bottom + Half(this.bounds.height)
    IN  IF point.lon > horizontalMidpoint
        THEN IF point.lat > verticalMidpoint THEN 3 ELSE 0
        ELSE IF point.lat > verticalMidpoint THEN 2 ELSE 1

RECURSIVE insert(_, _)
RECURSIVE Redistribute(_, _)

\* insert calling split() on a node that has subnodes before it delegates
insert_splitBeforeDelegate(this, point) ==
    LET hasSubNodes == HasSubNodes(this)
        index       == getIndexForPoint(this, point)
        pushed      == [this EXCEPT !.objects = Append(@, point)]
    IN  IF hasSubNodes /\ index # -1
        THEN [split(this) EXCEPT !.nodes[index + 1] = insert(@, point)]
        ELSE IF /\ Len(pushed.objects) > pushed.max_objects
                /\ pushed.level < pushed.max_levels
                /\ ~ hasSubNodes
             THEN Redistribute(IF ~ HasSubNodes(pushed) THEN split(pushed) ELSE pushed, 0)
             ELSE pushed

\* insert pushing the point onto this.objects before it looks for subnodes
insert_pushBeforeDelegate(this, point) ==
    LET hasSubNodes == HasSubNodes(this)
        index       == getIndexForPoint(this, point)
        pushed      == [this EXCEPT !.objects = Append(@, point)]
    IN  IF hasSubNodes /\ index # -1
        THEN [pushed EXCEPT !.nodes[index + 1] = insert(@, point)]
        ELSE IF /\ Len(pushed.objects) > pushed.max_objects
                /\ pushed.level < pushed.max_levels
                /\ ~ hasSubNodes
             THEN Redistribute(IF ~ HasSubNodes(pushed) THEN split(pushed) ELSE pushed, 0)
             ELSE pushed

\* Quadtree.prototype.insert
insert(this, point) ==
    LET hasSubNodes == HasSubNodes(this)
        index       == getIndexForPoint(this, point)
        pushed      == [this EXCEPT !.objects = Append(@, point)]
    IN  IF hasSubNodes /\ index # -1
        THEN [this EXCEPT !.nodes[index + 1] = insert(@, point)]
        ELSE IF /\ Len(pushed.objects) > pushed.max_objects
                /\ pushed.level < pushed.max_levels
                /\ ~ hasSubNodes
             THEN Redistribute(IF ~ HasSubNodes(pushed) THEN split(pushed) ELSE pushed, 0)
             ELSE pushed

\* the while loop of insert, stepping i after a splice as well
Redistribute_stepAfterSplice(this, i) ==
    IF i < Len(this.objects)
    THEN LET index == getIndexForPoint(this, this.objects[i + 1])
         IN  IF index # -1
             THEN Redistribute([this EXCEPT
                                   !.nodes[index + 1] = insert(@, this.objects[i + 1]),
                                   !.objects = RemoveAt(@, i + 1)], i + 1)
             ELSE Redistribute(this, i + 1)
    ELSE this

\* the while loop of insert, pushing onto the subnode's objects instead of
\* calling its insert
Redistribute_pushToSubnode(this, i) ==
    IF i < Len(this.objects)
    THEN LET index == getIndexForPoint(this, this.objects[i + 1])
         IN  IF index # -1
             THEN Redistribute([this EXCEPT
                                   !.nodes[index + 1].objects = Append(@, this.objects[i + 1]),
                                   !.objects = RemoveAt(@, i + 1)], i)
             ELSE Redistribute(this, i + 1)
    ELSE this

\* the while loop of insert, taking the objects from the back of the list
Redistribute_fromBack(this, i) ==
    IF i < Len(this.objects)
    THEN LET last  == this.objects[Len(this.objects)]
             index == getIndexForPoint(this, last)
         IN  IF index # -1
             THEN Redistribute([this EXCEPT
                                   !.nodes[index + 1] = insert(@, last),
                                   !.objects = RemoveAt(@, Len(this.objects))], i)
             ELSE Redistribute(this, i + 1)
    ELSE this

\* the while loop of insert: "add all objects to there corresponding subnodes"
Redistribute(this, i) ==
    IF i < Len(this.objects)
    THEN LET index == getIndexForPoint(this, this.objects[i + 1])
         IN  IF index # -1
             THEN Redistribute([this EXCEPT
                                   !.nodes[index + 1] = insert(@, this.objects[i + 1]),
                                   !.objects = RemoveAt(@, i + 1)], i)
             ELSE Redistribute(this, i + 1)
    ELSE this

RECURSIVE retrieve(_, _)
RECURSIVE RetrieveLoop(_, _, _, _, _)

\* retrieve with the loop over indexes started at 1
retrieve_loopFromOne(this, pRect) ==
    IF HasSubNodes(this)
    THEN RetrieveLoop(this, pRect, getIndexForRect(this, pRect), 1, this.objects)
    ELSE this.objects

\* Quadtree.prototype.retrieve
retrieve(this, pRect) ==
    IF HasSubNodes(this)
    THEN RetrieveLoop(this, pRect, getIndexForRect(this, pRect), 0, this.objects)
    ELSE this.objects

\* the for loop of retrieve over indexes
RetrieveLoop(this, pRect, indexes, i, returnObjects) ==
    IF i < Len(indexes)
    THEN RetrieveLoop(this, pRect, indexes, i + 1,
                      returnObjects \o retrieve(this.nodes[indexes[i + 1] + 1], pRect))
    ELSE returnObjects

RECURSIVE clear(_)

\* clear without the final this.nodes = []
clear_keepNodes(this) ==
    LET clearedNodes == [i \in 1..Len(this.nodes) |-> clear(this.nodes[i])]
    IN  [this EXCEPT !.objects = << >>,
                     !.nodes = clearedNodes]

\* Quadtree.prototype.clear: the subnodes are cleared first and then dropped
clear(this) ==
    LET clearedNodes == [i \in 1..Len(this.nodes) |-> clear(this.nodes[i])]
    IN  [this EXCEPT !.objects = << >>,
                     !.nodes = SubSeq(clearedNodes, 1, 0)]

----------------------------------------------------------------------------
(* Inputs of the model *)

Rect(l, r, b, t) == [left |-> Num(l), right |-> Num(r), bottom |-> Num(b), top |-> Num(t)]

Point(x, y) == [lon |-> Num(x), lat |-> Num(y)]

\* root bounds handed to the constructor (top > bottom, right > left)
SmallBounds == Rect(0, 10, 0, 10)

ScenarioBounds == Rect(0, 100, 0, 100)

WideBounds == Rect(4, 36, 0, 20)

MaxObjectsArgs == { Undefined, Arg(-1), Arg(0), Arg(1), Arg(2) }

MaxLevelsArgs == { Undefined, Arg(-1), Arg(0), Arg(1), Arg(2) }

LevelArgs == { Arg(0), Arg(1) }

\* the constructor calls <<bounds, max_objects, max_levels, level>> of the model:
\* every policy on the small bounds at the default level, some policies at a
\* given level, and some policies on the other bounds
Constructions ==
    ({SmallBounds} \X MaxObjectsArgs \X MaxLevelsArgs \X {Undefined})
    \cup ({SmallBounds} \X {Undefined, Arg(1)} \X {Undefined, Arg(2)} \X LevelArgs)
    \cup ({ScenarioBounds} \X {Arg(1), Arg(2)} \X {Arg(4)} \X {Undefined})
    \cup ({WideBounds} \X {Arg(1), Arg(2)} \X {Undefined, Arg(2)} \X {Undefined})

\* the constructor calls of the runs that go step by step
StepConstructions ==
    {SmallBounds} \X {Arg(-1), Arg(0), Arg(1)} \X {Arg(-1), Arg(0), Arg(2)} \X {Undefined}

\* points handed to insert
Points == { Point(5, 5), Point(7, 2), Point(10, 10), Point(20, 20), Point(30, 30) }

\* the sides of the query rectangles (right > left, top > bottom)
Intervals == { <<0, 10>>, <<0, 50>>, <<60, 100>>, <<0, 100>>, <<15, 35>>, <<6, 9>> }

\* rectangles handed to retrieve in the runs that go step by step: one that
\* contains the root bounds and one that meets some of the subnodes
StepRects == { Rect(0, 100, 0, 100), Rect(6, 9, 0, 10) }

\* rectangles handed to retrieve
QueryRects == { Rect(h[1], h[2], v[1], v[2]) : h \in Intervals, v \in Intervals }

----------------------------------------------------------------------------
(* The state machine: a caller that constructs a root and then calls       *)
(* insert and clear on it.                                                 *)

Init ==
    /\ \E call \in Constructions :
          /\ argBounds = call[1]
          /\ argMaxObjects = call[2]
          /\ argMaxLevels = call[3]
          /\ argLevel = call[4]
    /\ tree = Quadtree(argBounds, argMaxObjects, argMaxLevels, argLevel)
    /\ inserted = << >>
    /\ lastCall = "new"
    /\ stack = << >>

\* root.insert(point)
Insert ==
    /\ Len(inserted) < MaxInserts
    /\ \E point \in Points :
          /\ tree' = insert(tree, point)
          /\ inserted' = Append(inserted, point)
    /\ lastCall' = "insert"
    /\ UNCHANGED <<argBounds, argMaxObjects, argMaxLevels, argLevel, stack>>

\* root.clear()
Clear ==
    /\ tree' = clear(tree)
    /\ inserted' = << >>
    /\ lastCall' = "clear"
    /\ UNCHANGED <<argBounds, argMaxObjects, argMaxLevels, argLevel, stack>>

Next == Insert \/ Clear

Spec == Init /\ [][Next]_vars

----------------------------------------------------------------------------
(* The same calls run statement by statement.  A call of insert, retrieve  *)
(* or clear is a frame on the stack; the node it runs on ("this") is named *)
(* by its path from the root, nodes[i] of JavaScript being path element    *)
(* i + 1.  A frame holds the locals of the function: i, indexes and        *)
(* returnObjects, the argument arg, and pc, the statement it is at.        *)
(* JavaScript runs a call to completion on one thread: once a call is      *)
(* made, its next statement is always executed (the fairness of SpecSteps).*)

RECURSIVE NodeAt(_, _)
\* the node reached from this along path
NodeAt(this, path) ==
    IF path = << >> THEN this ELSE NodeAt(this.nodes[Head(path)], Tail(path))

RECURSIVE PutAt(_, _, _)
\* this with the node at path replaced by node
PutAt(this, path, node) ==
    IF path = << >>
    THEN node
    ELSE [this EXCEPT !.nodes[Head(path)] = PutAt(@, Tail(path), node)]

\* the frame of a call entering its function
Frame(op, path, arg) ==
    [op |-> op, path |-> path, arg |-> arg, pc |-> "enter",
     i |-> 0, indexes |-> << >>, returnObjects |-> << >>]

\* the running frame and the node it runs on
Top == stack[Len(stack)]

This == NodeAt(tree, Top.path)

\* the running frame becomes frame
Goto(frame) == stack' = [stack EXCEPT ![Len(stack)] = frame]

\* the running frame becomes frame and calls callee
Call(frame, callee) ==
    /\ Len(stack) < MaxStack
    /\ stack' = Append([stack EXCEPT ![Len(stack)] = frame], callee)

\* the test of insert that decides on a split, without the test of the level
SplitCondition_noLevelTest(this, hasSubNodes) ==
    /\ Len(this.objects) > this.max_objects
    /\ ~ hasSubNodes

\* the test of insert that decides on a split
SplitCondition(this, hasSubNodes) ==
    /\ Len(this.objects) > this.max_objects
    /\ this.level < this.max_levels
    /\ ~ hasSubNodes

\* the caller constructs the root
InitSteps ==
    /\ \E call \in StepConstructions :
          /\ argBounds = call[1]
          /\ argMaxObjects = call[2]
          /\ argMaxLevels = call[3]
          /\ argLevel = call[4]
    /\ tree = Quadtree(argBounds, argMaxObjects, argMaxLevels, argLevel)
    /\ inserted = << >>
    /\ lastCall = "new"
    /\ stack = << >>

\* the caller calls root.insert(point)
CallInsert ==
    /\ stack = << >>
    /\ Len(inserted) < MaxStepInserts
    /\ \E point \in Points :
          /\ stack' = << Frame("insert", << >>, point) >>
          /\ inserted' = Append(inserted, point)
    /\ lastCall' = "insert"
    /\ UNCHANGED <<tree, argBounds, argMaxObjects, argMaxLevels, argLevel>>

\* the caller calls root.retrieve(pRect)
CallRetrieve ==
    /\ stack = << >>
    /\ \E pRect \in StepRects : stack' = << Frame("retrieve", << >>, pRect) >>
    /\ lastCall' = "retrieve"
    /\ UNCHANGED <<tree, argBounds, argMaxObjects, argMaxLevels, argLevel, inserted>>

\* the caller calls root.clear()
CallClear ==
    /\ stack = << >>
    /\ stack' = << Frame("clear", << >>, Undefined) >>
    /\ inserted' = << >>
    /\ lastCall' = "clear"
    /\ UNCHANGED <<tree, argBounds, argMaxObjects, argMaxLevels, argLevel>>

\* insert, from its entry to the call of the subnode's insert, to the while
\* loop or to the end
InsertBody ==
    /\ stack # << >> /\ Top.op = "insert" /\ Top.pc = "enter"
    /\ LET hasSubNodes == HasSubNodes(This)
           index       == getIndexForPoint(This, Top.arg)
           pushed      == [This EXCEPT !.objects = Append(@, Top.arg)]
       IN  IF hasSubNodes /\ index # -1
           THEN /\ Call([Top EXCEPT !.pc = "return"],
                        Frame("insert", Append(Top.path, index + 1), Top.arg))
                /\ UNCHANGED tree
           ELSE IF SplitCondition(pushed, hasSubNodes)
                THEN /\ tree' = PutAt(tree, Top.path,
                                      IF ~ HasSubNodes(pushed) THEN split(pushed) ELSE pushed)
                     /\ Goto([Top EXCEPT !.pc = "while"])
                ELSE /\ tree' = PutAt(tree, Top.path, pushed)
                     /\ Goto([Top EXCEPT !.pc = "return"])
    /\ UNCHANGED <<argBounds, argMaxObjects, argMaxLevels, argLevel, inserted, lastCall>>

\* one test of the while loop of insert and the iteration or the exit it leads to
InsertWhile ==
    /\ stack # << >> /\ Top.op = "insert" /\ Top.pc = "while"
    /\ IF Top.i < Len(This.objects)
       THEN LET index == getIndexForPoint(This, This.objects[Top.i + 1])
            IN  IF index # -1
                THEN /\ tree' = PutAt(tree, Top.path,
                                      [This EXCEPT !.objects = RemoveAt(@, Top.i + 1)])
                     /\ Call(Top, Frame("insert", Append(Top.path, index + 1),
                                        This.objects[Top.i + 1]))
                ELSE /\ Goto([Top EXCEPT !.i = @ + 1])
                     /\ UNCHANGED tree
       ELSE /\ Goto([Top EXCEPT !.pc = "return"])
            /\ UNCHANGED tree
    /\ UNCHANGED <<argBounds, argMaxObjects, argMaxLevels, argLevel, inserted, lastCall>>

\* retrieve, from its entry to the for loop or to the return
RetrieveBody ==
    /\ stack # << >> /\ Top.op = "retrieve" /\ Top.pc = "enter"
    /\ IF HasSubNodes(This)
       THEN Goto([Top EXCEPT !.returnObjects = This.objects,
                             !.indexes = getIndexForRect(This, Top.arg),
                             !.pc = "for"])
       ELSE Goto([Top EXCEPT !.returnObjects = This.objects, !.pc = "return"])
    /\ UNCHANGED <<tree, argBounds, argMaxObjects, argMaxLevels, argLevel, inserted, lastCall>>

\* one test of the for loop of retrieve and the call or the exit it leads to
RetrieveFor ==
    /\ stack # << >> /\ Top.op = "retrieve" /\ Top.pc = "for"
    /\ IF Top.i < Len(Top.indexes)
       THEN Call(Top, Frame("retrieve", Append(Top.path, Top.indexes[Top.i + 1] + 1),
                            Top.arg))
       ELSE Goto([Top EXCEPT !.pc = "return"])
    /\ UNCHANGED <<tree, argBounds, argMaxObjects, argMaxLevels, argLevel, inserted, lastCall>>

\* clear, from its entry to the for loop
ClearBody ==
    /\ stack # << >> /\ Top.op = "clear" /\ Top.pc = "enter"
    /\ tree' = PutAt(tree, Top.path, [This EXCEPT !.objects = << >>])
    /\ Goto([Top EXCEPT !.pc = "for"])
    /\ UNCHANGED <<argBounds, argMaxObjects, argMaxLevels, argLevel, inserted, lastCall>>

\* one test of the for loop of clear and the call it leads to, or the exit
\* and the statement after the loop
ClearFor ==
    /\ stack # << >> /\ Top.op = "clear" /\ Top.pc = "for"
    /\ IF Top.i < Len(This.nodes)
       THEN /\ Call(Top, Frame("clear", Append(Top.path, Top.i + 1), Undefined))
            /\ UNCHANGED tree
       ELSE /\ tree' = PutAt(tree, Top.path, [This EXCEPT !.nodes = << >>])
            /\ Goto([Top EXCEPT !.pc = "return"])
    /\ UNCHANGED <<argBounds, argMaxObjects, argMaxLevels, argLevel, inserted, lastCall>>

\* the running call returns; the caller, if it is a call of the tree, goes on
\* after the call: the for loop of retrieve concatenates the result and steps
\* i, the for loop of clear steps i, insert goes on as it is
Return ==
    /\ stack # << >> /\ Top.pc = "return"
    /\ LET rest   == SubSeq(stack, 1, Len(stack) - 1)
           caller == rest[Len(rest)]
           resumed ==
               IF Top.op = "retrieve"
               THEN [caller EXCEPT !.returnObjects = @ \o Top.returnObjects, !.i = @ + 1]
               ELSE IF Top.op = "clear"
               THEN [caller EXCEPT !.i = @ + 1]
               ELSE caller
       IN  stack' = IF rest = << >>
                    THEN << >>
                    ELSE [rest EXCEPT ![Len(rest)] = resumed]
    /\ UNCHANGED <<tree, argBounds, argMaxObjects, argMaxLevels, argLevel, inserted, lastCall>>

\* the statements of the calls under way
Step ==
    \/ InsertBody \/ InsertWhile
    \/ RetrieveBody \/ RetrieveFor
    \/ ClearBody \/ ClearFor
    \/ Return

NextSteps ==
    \/ CallInsert \/ CallRetrieve \/ CallClear
    \/ InsertBody \/ InsertWhile
    \/ RetrieveBody \/ RetrieveFor
    \/ ClearBody \/ ClearFor
    \/ Return

SpecSteps == InitSteps /\ [][NextSteps]_vars /\ WF_vars(Step)

----------------------------------------------------------------------------
(* Walking the tree *)

RECURSIVE NodesOf(_)
\* the set of nodes of the subtree of this
NodesOf(this) ==
    {this} \cup UNION { NodesOf(this.nodes[i]) : i \in 1..Len(this.nodes) }

RECURSIVE Depth(_)
\* the number of levels below this
Depth(this) ==
    IF HasSubNodes(this)
    THEN 1 + CHOOSE d \in { Depth(this.nodes[i]) : i \in 1..4 } :
                 \A e \in { Depth(this.nodes[i]) : i \in 1..4 } : e <= d
    ELSE 0

Range(seq) == { seq[i] : i \in 1..Len(seq) }

\* the halvings of the model are exact
ExactHalves ==
    \A n \in NodesOf(tree) :
        HasSubNodes(n) => n.bounds.width % 2 = 0 /\ n.bounds.height % 2 = 0

\* the objects held by the nodes of the subtree of this, node first, then subnodes 0..3
RECURSIVE ObjectsUnder(_)
ObjectsUnder(this) ==
    IF HasSubNodes(this)
    THEN this.objects \o ObjectsUnder(this.nodes[1]) \o ObjectsUnder(this.nodes[2])
                      \o ObjectsUnder(this.nodes[3]) \o ObjectsUnder(this.nodes[4])
    ELSE this.objects

\* point lies in the closed rectangle rect
InRect(point, rect) ==
    /\ rect.left <= point.lon /\ point.lon <= rect.right
    /\ rect.bottom <= point.lat /\ point.lat <= rect.top

\* rectangle rect contains the closed rectangle bounds
ContainsBounds(rect, bounds) ==
    /\ rect.left <= bounds.left /\ rect.right >= bounds.right
    /\ rect.bottom <= bounds.bottom /\ rect.top >= bounds.top

\* the tree a sequence of insert calls builds from this
RECURSIVE InsertAll(_, _)
InsertAll(this, points) ==
    IF points = << >> THEN this
    ELSE InsertAll(insert(this, Head(points)), Tail(points))

\* the root as the constructor call of Init builds it
FreshRoot == Quadtree(argBounds, argMaxObjects, argMaxLevels, argLevel)

----------------------------------------------------------------------------
(* C1  Retrieve superset *)

\* C1 as stated: every inserted point that lies in the query rectangle R is
\* in root.retrieve(R), whatever points were inserted.
RetrieveSupersetAnyPoint ==
    \A R \in QueryRects : \A p \in Range(inserted) :
        InRect(p, R) => p \in Range(retrieve(tree, R))

\* C1 (amended): every inserted point that lies within the closed bounds of
\* the root and in the query rectangle R is in root.retrieve(R).
RetrieveSuperset ==
    \A R \in QueryRects :
        LET got == Range(retrieve(tree, R))
        IN  \A p \in Range(inserted) :
                InRect(p, tree.bounds) /\ InRect(p, R) => p \in got

\* a split root, a rectangle that does not cover it and prunes some stored
\* point, and an inserted point inside the bounds and the rectangle
RetrieveSupersetWitness ==
    /\ HasSubNodes(tree)
    /\ \E R \in QueryRects :
          /\ ~ ContainsBounds(R, tree.bounds)
          /\ Len(retrieve(tree, R)) < Len(inserted)
          /\ \E p \in Range(inserted) : InRect(p, tree.bounds) /\ InRect(p, R)

----------------------------------------------------------------------------
(* C2  Containment *)

\* C2: a query rectangle that contains the root bounds retrieves every point
\* inserted since construction or the last clear().
Containment ==
    \A R \in QueryRects :
        ContainsBounds(R, tree.bounds) =>
            LET got == Range(retrieve(tree, R))
            IN  \A p \in Range(inserted) : p \in got

\* a tree of two levels that holds a point outside the root bounds, and a
\* rectangle strictly larger than the root bounds
ContainmentWitness ==
    /\ Depth(tree) >= 2
    /\ \E p \in Range(inserted) : ~ InRect(p, tree.bounds)
    /\ \E R \in QueryRects :
          ContainsBounds(R, tree.bounds) /\ R.right > tree.bounds.right

\* seq holds exactly the elements of the set S, each once
HoldsEachOnce(seq, S) == Len(seq) = Cardinality(S) /\ Range(seq) = S

\* the larger of two integers
Max(a, b) == IF a >= b THEN a ELSE b

\* sequences of points of length 0 to 2
ShortRuns ==
    {<< >>} \cup { <<p>> : p \in Points } \cup { <<p, q>> : p \in Points, q \in Points }

----------------------------------------------------------------------------
(* C3  Clear resets to fresh *)

\* C3: after clear() on the root every retrieve is empty, the root is a leaf
\* with the bounds, level, max_objects and max_levels it had before, and the
\* insert calls that follow build the tree that they build on a newly
\* constructed root (retrieve reads nothing but the tree, so it returns the
\* same as well).
ClearResetsToFresh ==
    [][ lastCall' = "clear" =>
          /\ ~ HasSubNodes(tree')
          /\ tree'.objects = << >>
          /\ tree'.bounds = tree.bounds
          /\ tree'.level = tree.level
          /\ tree'.max_objects = tree.max_objects
          /\ tree'.max_levels = tree.max_levels
          /\ \A R \in QueryRects : retrieve(tree', R) = << >>
          /\ tree' = FreshRoot
          /\ \A run \in ShortRuns : InsertAll(tree', run) = InsertAll(FreshRoot, run)
      ]_vars

\* clear() has just returned
ClearResetsToFreshWitness ==
    lastCall = "clear" /\ tree = FreshRoot

----------------------------------------------------------------------------
(* C4  Depth cap *)

\* C4 as stated: with max_levels = L >= 0 and max_objects >= 1 given to the
\* constructor of a root at level 0, max_objects + 1 or more identical points
\* build a tree of depth exactly L whose deepest node is a leaf that holds all
\* the points.
DepthCap ==
    ( /\ argMaxLevels.given /\ argMaxLevels.val >= 0
      /\ argMaxObjects.given /\ argMaxObjects.val >= 1
      /\ tree.level = 0
      /\ Len(inserted) >= argMaxObjects.val + 1
      /\ \A i \in 1..Len(inserted) : inserted[i] = inserted[1] )
    => /\ Depth(tree) = argMaxLevels.val
       /\ \E n \in NodesOf(tree) :
             /\ n.level = argMaxLevels.val
             /\ ~ HasSubNodes(n)
             /\ n.objects = inserted

----------------------------------------------------------------------------
(* C5  Scenario *)

ScenarioPoints == << Point(10, 10), Point(20, 20), Point(30, 30) >>

\* C5: on bounds 0..100 x 0..100 with max_objects 2 and max_levels 4, after
\* inserting (10,10), (20,20), (30,30) the root is split and holds no object,
\* the three points are under subnode 1 and none under subnodes 0, 2, 3;
\* retrieve of 0..50 x 0..50 returns the three points, each once, and retrieve
\* of 60..100 x 60..100 returns nothing.
Scenario ==
    ( /\ argBounds = ScenarioBounds
      /\ argMaxObjects = Arg(2)
      /\ argMaxLevels = Arg(4)
      /\ argLevel = Undefined
      /\ inserted = ScenarioPoints )
    => /\ HasSubNodes(tree)
       /\ tree.objects = << >>
       /\ HoldsEachOnce(ObjectsUnder(tree.nodes[2]), Range(ScenarioPoints))
       /\ ObjectsUnder(tree.nodes[1]) = << >>
       /\ ObjectsUnder(tree.nodes[3]) = << >>
       /\ ObjectsUnder(tree.nodes[4]) = << >>
       /\ HoldsEachOnce(retrieve(tree, Rect(0, 50, 0, 50)), Range(ScenarioPoints))
       /\ retrieve(tree, Rect(60, 100, 60, 100)) = << >>

\* the state after the three inserts of the scenario
ScenarioWitness ==
    /\ argBounds = ScenarioBounds
    /\ argMaxObjects = Arg(2)
    /\ argMaxLevels = Arg(4)
    /\ argLevel = Undefined
    /\ inserted = ScenarioPoints
    /\ lastCall = "insert"

----------------------------------------------------------------------------
(* C6  Capacity invariant *)

\* C6 as stated: every leaf with level < max_levels holds at most max_objects
\* points, and a leaf that holds more than max_objects has level = max_levels.
CapacityAsStated ==
    lastCall # "new" =>
        \A n \in NodesOf(tree) :
            ~ HasSubNodes(n) =>
                /\ n.level < n.max_levels => Len(n.objects) <= n.max_objects
                /\ Len(n.objects) > n.max_objects => n.level = n.max_levels

\* C6 (amended): every leaf with level < max_levels holds at most max_objects
\* points, and none when max_objects is negative; only leaves with
\* level >= max_levels hold more.
Capacity ==
    lastCall # "new" =>
        \A n \in NodesOf(tree) :
            ~ HasSubNodes(n) =>
                /\ n.level < n.max_levels => Len(n.objects) <= Max(n.max_objects, 0)
                /\ Len(n.objects) > Max(n.max_objects, 0) => n.level >= n.max_levels

\* a full leaf above the depth cap and an overfull leaf at the depth cap
CapacityWitness ==
    /\ lastCall = "insert"
    /\ \E n \in NodesOf(tree) :
          /\ ~ HasSubNodes(n) /\ n.level < n.max_levels
          /\ n.max_objects >= 1 /\ Len(n.objects) = n.max_objects
    /\ \E n \in NodesOf(tree) :
          /\ ~ HasSubNodes(n) /\ n.level = n.max_levels
          /\ n.max_objects >= 1 /\ Len(n.objects) > n.max_objects

----------------------------------------------------------------------------
(* C7  Partition tiling *)

\* the four rectangles q tile the rectangle b in the convention
\* 0 = bottom right, 1 = bottom left, 2 = top left, 3 = top right
\* (q[i + 1] is subnode i): they meet on one vertical and one horizontal line
\* inside b and reach the sides of b
Tiles(q, b) ==
    LET hm == q[1].left
        vm == q[1].top
    IN  /\ b.left <= hm /\ hm <= b.right
        /\ b.bottom <= vm /\ vm <= b.top
        /\ q[1].left = hm     /\ q[1].right = b.right /\ q[1].bottom = b.bottom /\ q[1].top = vm
        /\ q[2].left = b.left /\ q[2].right = hm      /\ q[2].bottom = b.bottom /\ q[2].top = vm
        /\ q[3].left = b.left /\ q[3].right = hm      /\ q[3].bottom = vm       /\ q[3].top = b.top
        /\ q[4].left = hm     /\ q[4].right = b.right /\ q[4].bottom = vm       /\ q[4].top = b.top

\* the area of a rectangle
Area(b) == (b.right - b.left) * (b.top - b.bottom)

\* C7: the bounds of the four subnodes of a split node tile its bounds: each
\* subnode is its quadrant (0 = bottom right, 1 = bottom left, 2 = top left,
\* 3 = top right), they leave no gap and any two share no interior area.
PartitionTiling ==
    \A n \in NodesOf(tree) :
        HasSubNodes(n) /\ n.bounds.right > n.bounds.left /\ n.bounds.top > n.bounds.bottom =>
            /\ Len(n.nodes) = 4
            /\ Tiles([i \in 1..4 |-> n.nodes[i].bounds], n.bounds)
            /\ Area(n.nodes[1].bounds) + Area(n.nodes[2].bounds)
                 + Area(n.nodes[3].bounds) + Area(n.nodes[4].bounds) = Area(n.bounds)

\* a split node below a split root whose left side is not 0
PartitionTilingWitness ==
    /\ Depth(tree) >= 2
    /\ tree.bounds.left # 0
    /\ tree.bounds.width # tree.bounds.height

----------------------------------------------------------------------------
(* C8  Index convention agreement *)

\* points of the closed bounds of this on and next to its sides and midlines
Probes(this) ==
    LET b  == this.bounds
        hm == b.left + Half(b.width)
        vm == b.bottom + Half(b.height)
    IN  { p \in [ lon : {b.left, b.left + 1, hm - 1, hm, hm + 1, b.right - 1, b.right},
                  lat : {b.bottom, b.bottom + 1, vm - 1, vm, vm + 1, b.top - 1, b.top} ] :
            InRect(p, b) }

\* C8: for a split node and a point within its closed bounds getIndexForPoint
\* returns an index 0..3 of a subnode whose bounds contain the point; on
\* bounds 0..10 x 0..10, (7,8) maps to 3, (2,2) to 1, (2,8) to 2, (7,2) to 0.
IndexConvention ==
    /\ \A n \in NodesOf(tree) :
          HasSubNodes(n) =>
              \A p \in Probes(n) \cup { q \in Points : InRect(q, n.bounds) } :
                  /\ getIndexForPoint(n, p) \in 0..3
                  /\ InRect(p, n.nodes[getIndexForPoint(n, p) + 1].bounds)
    /\ HasSubNodes(tree) /\ argBounds = SmallBounds =>
          /\ getIndexForPoint(tree, Point(7, 8)) = 3
          /\ getIndexForPoint(tree, Point(2, 2)) = 1
          /\ getIndexForPoint(tree, Point(2, 8)) = 2
          /\ getIndexForPoint(tree, Point(7, 2)) = 0

\* a split root on the bounds 0..10 x 0..10 with a split subnode
IndexConventionWitness ==
    /\ argBounds = SmallBounds
    /\ Depth(tree) >= 2

----------------------------------------------------------------------------
(* C9  Construction policy *)

\* the value the claim gives an optional argument: the default exactly when
\* the argument is not supplied
SuppliedOr(a, d) == IF a.given THEN a.val ELSE d

\* C9 as stated: the root stores a supplied max_objects, max_levels and level
\* unchanged (0 included) and the defaults 10, 4, 0 otherwise, and every node
\* of the tree carries that policy.
ConstructionPolicy ==
    /\ tree.level = SuppliedOr(argLevel, DefaultLevel)
    /\ \A n \in NodesOf(tree) :
          /\ n.max_objects = SuppliedOr(argMaxObjects, DefaultMaxObjects)
          /\ n.max_levels = SuppliedOr(argMaxLevels, DefaultMaxLevels)

----------------------------------------------------------------------------
(* C10  Points live only in leaves *)

\* C10: after a completed insert or clear every split node has an empty
\* objects list.
PointsOnlyInLeaves ==
    \A n \in NodesOf(tree) : HasSubNodes(n) => n.objects = << >>

\* a redistribution that went two levels down, and a later insert into the
\* split root
PointsOnlyInLeavesWitness ==
    /\ Depth(tree) >= 2
    /\ Len(inserted) > tree.max_objects + 1
    /\ tree.max_objects >= 1

----------------------------------------------------------------------------
(* C11  Split is atomic and irreversible under insert *)

\* seq without its last element
Front(seq) == SubSeq(seq, 1, Len(seq) - 1)

\* a is a prefix of b
IsPrefix(a, b) == Len(a) <= Len(b) /\ SubSeq(b, 1, Len(a)) = a

RECURSIVE KeepsSplits(_, _)
\* new is old after more inserts: the same bounds and level; a split node of
\* old is split in new, into subnodes that in turn keep their splits; a leaf
\* of old that is a leaf of new still starts with the objects it held
KeepsSplits(old, new) ==
    /\ new.bounds = old.bounds
    /\ new.level = old.level
    /\ HasSubNodes(old) =>
          /\ Len(new.nodes) = 4
          /\ \A i \in 1..4 : KeepsSplits(old.nodes[i], new.nodes[i])
    /\ ~ HasSubNodes(old) /\ ~ HasSubNodes(new) => IsPrefix(old.objects, new.objects)

\* C11: a node has no subnodes or exactly four; a split node stays split, with
\* the same four subnodes (bounds and level), through every insert, so that
\* no node is split twice between clears; only clear() makes a split root a
\* leaf again.
SplitIrreversible ==
    /\ [] (\A n \in NodesOf(tree) : Len(n.nodes) \in {0, 4})
    /\ [][ /\ lastCall' = "insert" => KeepsSplits(tree, tree')
           /\ HasSubNodes(tree) /\ ~ HasSubNodes(tree') => lastCall' = "clear"
         ]_vars

\* an insert into a root that was split before, which split a subnode
SplitIrreversibleWitness ==
    /\ lastCall = "insert"
    /\ Len(inserted) >= 2
    /\ HasSubNodes(InsertAll(FreshRoot, Front(inserted)))
    /\ Depth(tree) > Depth(InsertAll(FreshRoot, Front(inserted)))

----------------------------------------------------------------------------
(* C12  Level bound *)

\* C12 as stated: in a tree whose root was constructed at level 0 with
\* max_levels = L >= 0, every split node has level < L, no node has a level
\* above L, every node at level L is a leaf, and a subnode has the level of
\* its parent + 1 and the max_objects and max_levels of the root.
LevelBound ==
    LET L == SuppliedOr(argMaxLevels, DefaultMaxLevels)
    IN  tree.level = 0 /\ L >= 0 =>
            \A n \in NodesOf(tree) :
                /\ HasSubNodes(n) => n.level < L
                /\ n.level <= L
                /\ \A i \in 1..Len(n.nodes) :
                      /\ n.nodes[i].level = n.level + 1
                      /\ n.nodes[i].max_objects = tree.max_objects
                      /\ n.nodes[i].max_levels = tree.max_levels

----------------------------------------------------------------------------
(* C13  getIndexForRect agrees with the per-subnode intersection *)

\* the bounds of this lie within the rectangle rect: the fast path applies
FastPath(this, rect) == ContainsBounds(rect, this.bounds)

\* seq is strictly ascending
IsAscending(seq) == \A i \in 1..(Len(seq) - 1) : seq[i] < seq[i + 1]

\* C13: for a split node and a rectangle R, getIndexForRect(R) lists in
\* ascending order, each once, the indexes i of the subnodes for which
\* hasIntersection(R) is true; where the fast path applies these are all four.
RectIndexAgreement ==
    \A n \in NodesOf(tree) :
        HasSubNodes(n) =>
            \A R \in QueryRects :
                LET indexes == getIndexForRect(n, R)
                IN  /\ IsAscending(indexes)
                    /\ Range(indexes) = { i \in 0..3 : hasIntersection(n.nodes[i + 1], R) }
                    /\ FastPath(n, R) => Range(indexes) = 0..3

\* a split node with a rectangle on the fast path, one that meets some but not
\* all subnodes, and one that meets none
RectIndexAgreementWitness ==
    \E n \in NodesOf(tree) :
        /\ HasSubNodes(n)
        /\ \E R \in QueryRects : FastPath(n, R)
        /\ \E R \in QueryRects : Len(getIndexForRect(n, R)) \in 1..3
        /\ \E R \in QueryRects : getIndexForRect(n, R) = << >>

----------------------------------------------------------------------------
(* C15  hasIntersection is the closed-rectangle overlap test *)

\* the closed rectangles a and b share a point (x, y): if they share any, they
\* share one whose x is the left side of a or of b, and whose y is the bottom
\* side of a or of b
SharePoint(a, b) ==
    /\ \/ b.left <= a.left /\ a.left <= b.right
       \/ a.left <= b.left /\ b.left <= a.right
    /\ \/ b.bottom <= a.bottom /\ a.bottom <= b.top
       \/ a.bottom <= b.bottom /\ b.bottom <= a.top

\* the closed rectangles a and b share a point of the interior of both
ShareInterior(a, b) ==
    /\ a.left < b.right /\ b.left < a.right
    /\ a.bottom < b.top /\ b.bottom < a.top

\* C15: hasIntersection(R) is true iff the closed rectangles of the node and
\* R share a point, rectangles that touch on a side or a corner included, and
\* it gives the same with the two rectangles exchanged.
ClosedOverlap ==
    \A n \in NodesOf(tree) : \A R \in QueryRects :
        /\ hasIntersection(n, R) <=> SharePoint(n.bounds, R)
        /\ hasIntersection(n, R) <=> hasIntersection([bounds |-> R], n.bounds)

\* a node with a rectangle it only touches on a side, one it only touches on a
\* corner, one it overlaps and one it does not meet
ClosedOverlapWitness ==
    \E n \in NodesOf(tree) :
        /\ \E R \in QueryRects :
              /\ SharePoint(n.bounds, R) /\ ~ ShareInterior(n.bounds, R)
              /\ (R.right = n.bounds.left \/ R.left = n.bounds.right)
              /\ R.bottom < n.bounds.top /\ n.bounds.bottom < R.top
        /\ \E R \in QueryRects :
              /\ SharePoint(n.bounds, R)
              /\ (R.right = n.bounds.left \/ R.left = n.bounds.right)
              /\ (R.top = n.bounds.bottom \/ R.bottom = n.bounds.top)
        /\ \E R \in QueryRects : ShareInterior(n.bounds, R)
        /\ \E R \in QueryRects : ~ SharePoint(n.bounds, R)

----------------------------------------------------------------------------
(* C16  Retrieve order *)

RECURSIVE PreOrder(_, _)
\* the objects of this, then those of its subnodes 0, 1, 2, 3 in turn, leaving
\* out the subnodes that share no point with rect where rect does not contain
\* the bounds of this
PreOrder(this, rect) ==
    LET Under(i) == IF FastPath(this, rect) \/ SharePoint(this.nodes[i].bounds, rect)
                    THEN PreOrder(this.nodes[i], rect)
                    ELSE << >>
    IN  IF HasSubNodes(this)
        THEN this.objects \o Under(1) \o Under(2) \o Under(3) \o Under(4)
        ELSE this.objects

RECURSIVE IsSubsequence(_, _)
\* the elements of a occur in b in the order they have in a
IsSubsequence(a, b) ==
    IF a = << >> THEN TRUE
    ELSE IF b = << >> THEN FALSE
    ELSE IF Head(a) = Head(b) THEN IsSubsequence(Tail(a), Tail(b))
    ELSE IsSubsequence(a, Tail(b))

\* C16: retrieve(R) returns the objects of the node first and then the results
\* of the selected subnodes in ascending index, recursively; the objects of a
\* leaf are in the order in which they were inserted into the tree.
RetrieveOrder ==
    /\ \A R \in QueryRects : retrieve(tree, R) = PreOrder(tree, R)
    /\ \A n \in NodesOf(tree) :
          ~ HasSubNodes(n) => IsSubsequence(n.objects, inserted)

\* a leaf below the root that holds two different points, a rectangle for
\* which retrieve visits more than one subnode that holds a point, and a
\* rectangle for which it leaves a subnode that holds a point out
RetrieveOrderWitness ==
    /\ \E n \in NodesOf(tree) :
          n.level > tree.level /\ Cardinality(Range(n.objects)) >= 2
    /\ \E R \in QueryRects :
          Cardinality({ i \in Range(getIndexForRect(tree, R)) :
                           retrieve(tree.nodes[i + 1], R) # << >> }) >= 2
    /\ \E R \in QueryRects :
          retrieve(tree, R) # << >> /\ Len(retrieve(tree, R)) < Len(inserted)

----------------------------------------------------------------------------
(* C17  Location invariant *)

\* the midlines of the bounds b, computed from its sides
MidLon(b) == (b.left + b.right) \div 2

MidLat(b) == (b.bottom + b.top) \div 2

\* C17: if every inserted point lies within the closed bounds of the root,
\* every point in the objects of a node lies within the closed bounds of that
\* node; a point on the vertical midline of a split node is under a left
\* subnode (1 or 2) and a point on its horizontal midline under a bottom
\* subnode (0 or 1).
LocationInvariant ==
    (\A p \in Range(inserted) : InRect(p, tree.bounds)) =>
        \A n \in NodesOf(tree) :
            /\ \A p \in Range(n.objects) : InRect(p, n.bounds)
            /\ \A i \in 1..Len(n.nodes) : \A p \in Range(ObjectsUnder(n.nodes[i])) :
                  /\ p.lon = MidLon(n.bounds) => i - 1 \in {1, 2}
                  /\ p.lat = MidLat(n.bounds) => i - 1 \in {0, 1}

\* only points within the root bounds were inserted, the tree has two levels,
\* and the root holds a point on its vertical midline only and a point on its
\* horizontal midline only
LocationInvariantWitness ==
    /\ \A p \in Range(inserted) : InRect(p, tree.bounds)
    /\ Depth(tree) >= 2
    /\ \E p \in Range(ObjectsUnder(tree)) :
          p.lon = MidLon(tree.bounds) /\ p.lat # MidLat(tree.bounds)
    /\ \E p \in Range(ObjectsUnder(tree)) :
          p.lon # MidLon(tree.bounds) /\ p.lat = MidLat(tree.bounds)

----------------------------------------------------------------------------
(* C18  Point conservation *)

\* how many times p occurs in seq
Count(seq, p) == Cardinality({ i \in 1..Len(seq) : seq[i] = p })

\* a and b hold the same points, each as many times
SameBag(a, b) ==
    /\ Len(a) = Len(b)
    /\ \A p \in Points : Count(a, p) = Count(b, p)

\* C18: the points in the objects lists of all nodes are the points inserted
\* since construction or the last clear(), each as many times as it was
\* inserted, and so are the points retrieve returns for a rectangle that
\* contains the root bounds.
PointConservation ==
    /\ SameBag(ObjectsUnder(tree), inserted)
    /\ \A R \in QueryRects :
          ContainsBounds(R, tree.bounds) => SameBag(retrieve(tree, R), inserted)

\* a tree of two levels built from a point inserted twice and another point
PointConservationWitness ==
    /\ Depth(tree) >= 2
    /\ \E p \in Points : Count(inserted, p) >= 2
    /\ Cardinality(Range(inserted)) >= 2
    /\ \E R \in QueryRects : ContainsBounds(R, tree.bounds)

----------------------------------------------------------------------------
(* C19  Pruning *)

RECURSIVE HeldNear(_, _)
\* the number of objects in the nodes under this whose closed bounds share a
\* point with rect
HeldNear(this, rect) ==
    (IF SharePoint(this.bounds, rect) THEN Len(this.objects) ELSE 0)
    + (IF HasSubNodes(this)
       THEN HeldNear(this.nodes[1], rect) + HeldNear(this.nodes[2], rect)
            + HeldNear(this.nodes[3], rect) + HeldNear(this.nodes[4], rect)
       ELSE 0)

\* C19: for a split root, every point retrieve(R) returns is in a leaf whose
\* closed bounds share a point with R, the nodes whose bounds are disjoint
\* from R contribute nothing, and retrieve(R) is empty when R is disjoint from
\* the bounds of every leaf that holds a point; a root without subnodes
\* returns all its objects.
Pruning ==
    LET holders == { n \in NodesOf(tree) : ~ HasSubNodes(n) /\ n.objects # << >> }
    IN  \A R \in QueryRects :
            LET got == retrieve(tree, R)
            IN  IF HasSubNodes(tree)
                THEN /\ \A p \in Range(got) :
                           \E n \in holders :
                               SharePoint(n.bounds, R) /\ p \in Range(n.objects)
                     /\ Len(got) = HeldNear(tree, R)
                     /\ (\A n \in holders : ~ SharePoint(n.bounds, R)) => got = << >>
                ELSE got = tree.objects

\* a split root with points in two leaves, a rectangle that retrieves some of
\* the points and not all, and a rectangle that meets the root and retrieves
\* none
PruningWitness ==
    /\ HasSubNodes(tree)
    /\ \E R \in QueryRects :
          retrieve(tree, R) # << >> /\ Len(retrieve(tree, R)) < Len(inserted)
    /\ \E R \in QueryRects :
          SharePoint(tree.bounds, R) /\ retrieve(tree, R) = << >>

\* a call that has returned leaves the tree the functions insert and clear
\* give for the calls made so far, and a call of retrieve on the root returns
\* what the function retrieve gives
StepsAgree ==
    /\ stack = << >> => tree = InsertAll(FreshRoot, inserted)
    /\ Len(stack) = 1 /\ Top.op = "retrieve" /\ Top.pc = "return"
          => Top.returnObjects = retrieve(tree, Top.arg)

\* C14: every call of insert, retrieve and clear returns, whatever the point
\* and the values given for max_objects and max_levels: the calls under way
\* are never more than the levels from the root to the depth cap max_levels
\* and one, every iteration of the while loop of insert takes one point off
\* the objects of the node and hands it to a subnode, and a call that is
\* under way leads to the state where none is.
Termination ==
    /\ [] (Len(stack) <= Max(0, tree.max_levels - tree.level) + 1)
    /\ [][ stack # << >> /\ Top.op = "insert" /\ Top.pc = "while"
              /\ Top.i < Len(This.objects)
           => /\ Len(NodeAt(tree', Top.path).objects) = Len(This.objects) - 1
              /\ Len(stack') = Len(stack) + 1
              /\ stack'[Len(stack')].arg = This.objects[Top.i + 1]
         ]_vars
    /\ (stack # << >>) ~> (stack = << >>)

\* an insert has returned on a root given max_objects <= 0 and max_levels <= 0:
\* the root is split down to its depth cap, and a leaf at the cap holds two
\* identical points that lie outside the root bounds
TerminationWitness ==
    /\ stack = << >> /\ lastCall = "insert"
    /\ argMaxObjects.given /\ argMaxObjects.val <= 0
    /\ argMaxLevels.given /\ argMaxLevels.val <= 0
    /\ Depth(tree) = tree.max_levels - tree.level
    /\ Depth(tree) >= 2
    /\ \E n \in NodesOf(tree) :
          /\ n.level = n.max_levels
          /\ Len(n.objects) >= 2
          /\ n.objects[1] = n.objects[2]
          /\ ~ InRect(n.objects[1], tree.bounds)

====
